---- MODULE Spec2Model ----
\* Session store (store/auth.ts), HTTP adapter (lib/api request) and route
\* guards (MainLayout, AdminLayout) of the SFC frontend.
\*
\* Execution model: one JavaScript thread.  Every asynchronous operation runs
\* synchronously up to its next awaited network call; the awaited call is a
\* continuation in `pending`, and the arrival of its response is one action
\* that runs the code up to the next awaited network call or the return.
\* Awaits on already-settled promises of nested async functions resume in the
\* same microtask checkpoint and are not interleaving points.
\*
\* Nullable values are sequences of length at most one: <<>> is null or
\* undefined, <<x>> is the value x.
EXTENDS Integers, Sequences, FiniteSets, Bags, TLC

\* ---------------------------------------------------------------- bounds
MaxInFlight == 1
MaxDepth == 2

\* ------------------------------------------------------ program constants
TOKEN_EXPIRY_DAYS_REMEMBER == 30
TOKEN_EXPIRY_DAYS_SESSION == 1

\* ------------------------------------------------------------ value sets
None == <<>>
Some(x) == <<x>>

Users == {[id |-> "u1", role |-> "member"], [id |-> "u2", role |-> "admin"]}

UserProfiles == {[onboarding_completed_at |-> None],
                 [onboarding_completed_at |-> Some("2025-01-01")]}

\* The credential pairs the backend issues.
TokenPairs == {[access_token |-> "a1", refresh_token |-> "r1"],
               [access_token |-> "a2", refresh_token |-> "r2"]}

StatusData == [user : Users, onboarding_completed : BOOLEAN]

\* Cookie lifetime of a cookie set without the expires attribute.
SessionCookie == 0

\* ------------------------------------------------------- HTTP adapter
\* An ApiResponse: data and error are both nullable.  threw marks a call
\* whose promise rejected instead of resolving to an ApiResponse.
ApiData(d) == [data |-> Some(d), error |-> None, threw |-> FALSE]
ApiNoData == [data |-> None, error |-> None, threw |-> FALSE]
ApiError(m, c) == [data |-> None, error |-> Some([message |-> m, code |-> c]),
                   threw |-> FALSE]
ApiThrew == [data |-> None, error |-> None, threw |-> TRUE]

\* Bodies of non-2xx answers, as parsed JSON: the fields request reads.
\* None as a body is an unparseable or empty body (json() rejected -> null).
\* A body has the fields request reads: detail as an object or as a string,
\* message and code.
ErrorBodies ==
    { Some([detailObj |-> Some([message |-> Some("Invalid or expired OTP"),
                                code |-> Some("INVALID_OTP")]),
            detailStr |-> None, message |-> None, code |-> None]),
      None }

\* a || b on nullable strings: null, undefined and "" are falsy.
Or(a, b) == IF a # None /\ a # Some("") THEN a ELSE b

\* data?.detail as the second operand of ||: a detail that is an object is
\* truthy and becomes the message as it is; it is written here as the text
\* it converts to.
detailValue(d) ==
    IF d.detailObj # None THEN Some("[object Object]") ELSE d.detailStr

\* The message without the fallback text.
errorMessage_noFallback(body) ==
    IF body = None THEN ""
    ELSE LET d == body[1] IN
         Or(Or(Or(IF d.detailObj # None THEN d.detailObj[1].message ELSE None,
                  detailValue(d)),
               d.message),
            Some(""))[1]

\* data?.detail?.message || data?.detail || data?.message || "An error occurred"
errorMessage(body) ==
    IF body = None THEN "An error occurred"
    ELSE LET d == body[1] IN
         Or(Or(Or(IF d.detailObj # None THEN d.detailObj[1].message ELSE None,
                  detailValue(d)),
               d.message),
            Some("An error occurred"))[1]

\* data?.detail?.code || data?.code
errorCode(body) ==
    IF body = None THEN None
    ELSE LET d == body[1] IN
         Or(IF d.detailObj # None THEN d.detailObj[1].code ELSE None, d.code)

\* The outcome of fetch: a transport failure, or a response with its ok flag
\* and its body (for a 2xx answer the parsed payload, None when unparseable).
Transport == [kind |-> "transport"]
HttpError(b) == [kind |-> "error", body |-> b]
HttpOk(b) == [kind |-> "ok", body |-> b]

\* request without its catch: a transport failure rejects the call.
request_uncaught(outcome) ==
    CASE outcome.kind = "transport" -> ApiThrew
      [] outcome.kind = "error" ->
            ApiError(errorMessage(outcome.body), errorCode(outcome.body))
      [] outcome.kind = "ok" ->
            [data |-> outcome.body, error |-> None, threw |-> FALSE]

\* request without its test of response.ok.
request_okUnchecked(outcome) ==
    CASE outcome.kind = "transport" ->
            ApiError("Network error. Please check your connection.", None)
      [] OTHER ->
            [data |-> outcome.body, error |-> None, threw |-> FALSE]

request(outcome) ==
    CASE outcome.kind = "transport" ->
            ApiError("Network error. Please check your connection.", None)
      [] outcome.kind = "error" ->
            ApiError(errorMessage(outcome.body), errorCode(outcome.body))
      [] outcome.kind = "ok" ->
            [data |-> outcome.body, error |-> None, threw |-> FALSE]

\* Everything fetch can produce for an endpoint whose payload set is D.
Outcomes(D) == {Transport} \cup {HttpError(b) : b \in ErrorBodies}
               \cup {HttpOk(Some(d)) : d \in D} \cup {HttpOk(None)}

\* ------------------------------------------------------------- state
VARIABLES
    user,                    \* AuthState.user
    profile,                 \* AuthState.profile
    isAuthenticated,         \* AuthState.isAuthenticated
    isLoading,               \* AuthState.isLoading
    hasCompletedOnboarding,  \* AuthState.hasCompletedOnboarding
    cookies,                 \* js-cookie jar: access_token, refresh_token
    pending,                 \* bag of continuations awaiting a response
    result,                  \* what returned (and was exchanged) in the last step
    nav,                     \* the router.push made in the last step, if any
    forgot,                  \* ForgotPasswordPage: its useState fields
    sinceLogout              \* history: has logout completed since the last
                             \* login or verifyOtp was started ("untracked"
                             \* where the history is not kept)

vars == <<user, profile, isAuthenticated, isLoading, hasCompletedOnboarding,
          cookies, pending, result, nav, forgot, sinceLogout>>

NoCookies == [access_token |-> None, refresh_token |-> None]

Cookie(v, days) == Some([value |-> v, expires |-> days])

\* A continuation: the operation, the call it awaits, and its locals.
Cont(op, at, caller, rememberMe, depth) ==
    [op |-> op, at |-> at, caller |-> caller, rememberMe |-> rememberMe,
     depth |-> depth]

\* A return (or a throw) of an operation to its caller.
Returned(op, success, error, ro) ==
    [op |-> op, success |-> success, error |-> error,
     requiresOnboarding |-> ro, threw |-> FALSE]
Threw(op) ==
    [op |-> op, success |-> FALSE, error |-> None,
     requiresOnboarding |-> None, threw |-> TRUE]

\* The mutable world an operation runs against, as one record.
Cur == [user |-> user, profile |-> profile, isAuthenticated |-> isAuthenticated,
        isLoading |-> isLoading, hasCompletedOnboarding |-> hasCompletedOnboarding,
        cookies |-> cookies, pending |-> pending, result |-> {}, nav |-> None,
        forgot |-> forgot, sinceLogout |-> sinceLogout]

\* The step is taken unless it would leave more than MaxInFlight calls awaited.
Commit(s) ==
    /\ BagCardinality(s.pending) <= MaxInFlight
    /\ user' = s.user
    /\ profile' = s.profile
    /\ isAuthenticated' = s.isAuthenticated
    /\ isLoading' = s.isLoading
    /\ hasCompletedOnboarding' = s.hasCompletedOnboarding
    /\ cookies' = s.cookies
    /\ pending' = s.pending
    /\ result' = s.result
    /\ nav' = s.nav
    /\ forgot' = s.forgot
    /\ sinceLogout' = s.sinceLogout

\* zustand set(partial): merge the given fields into the state.
set(s, partial) ==
    [k \in DOMAIN s |-> IF k \in DOMAIN partial THEN partial[k] ELSE s[k]]

CookiesSet(s, name, v, days) ==
    [s EXCEPT !.cookies = [@ EXCEPT ![name] = Cookie(v, days)]]
CookiesRemove(s, name) ==
    [s EXCEPT !.cookies = [@ EXCEPT ![name] = None]]

await(s, c) == [s EXCEPT !.pending = @ (+) SetToBag({c})]
resumed(s, c) == [s EXCEPT !.pending = @ (-) SetToBag({c})]
return(s, r) == [s EXCEPT !.result = @ \cup {r}]

\* Besides the returns, `result` notes what the step's operations exchanged
\* with the backend where a property is about it: the status answer an
\* operation has read, and the body of a request it has sent.
StatusRead(op, d) == [op |-> "status", by |-> op, data |-> d]
observe(s, e) == [s EXCEPT !.result = @ \cup {e}]

\* ForgotPasswordPage as it mounts (lines 477-483).
ForgotInit ==
    [step |-> "email", otp |-> <<>>, password |-> <<>>, confirmPassword |-> <<>>,
     error |-> "", isSubmitting |-> FALSE]

\* The history, where it is kept: a logout has completed; a login or a
\* verifyOtp has been started.
logoutCompleted(s) ==
    IF s.sinceLogout = "untracked" THEN s ELSE [s EXCEPT !.sinceLogout = "yes"]
signInStarted(s) ==
    IF s.sinceLogout = "untracked" THEN s ELSE [s EXCEPT !.sinceLogout = "no"]

InFlight == BagCardinality(pending)
Awaiting(op, at) == {c \in BagToSet(pending) : c.op = op /\ c.at = at}

Init ==
    /\ user = None
    /\ profile = None
    /\ isAuthenticated = FALSE
    /\ isLoading = TRUE
    /\ hasCompletedOnboarding = FALSE
    /\ cookies = NoCookies
    /\ pending = EmptyBag
    /\ result = {}
    /\ nav = None
    /\ forgot = ForgotInit
    /\ sinceLogout = "untracked"

\* ------------------------------------------------------ paths and URLs
\* Strings the code takes apart are sequences of one-character strings.
startsWith(s, prefix) ==
    Len(s) >= Len(prefix) /\ SubSeq(s, 1, Len(prefix)) = prefix

P_dashboard == <<"/", "d", "a", "s", "h", "b", "o", "a", "r", "d">>
P_profile == <<"/", "p", "r", "o", "f", "i", "l", "e">>
P_onboarding == <<"/", "o", "n", "b", "o", "a", "r", "d", "i", "n", "g">>
P_programs == <<"/", "p", "r", "o", "g", "r", "a", "m", "s">>
P_program == <<"/", "p", "r", "o", "g", "r", "a", "m", "s", "/", "p", "1">>
P_login == <<"/", "l", "o", "g", "i", "n">>
P_admin == <<"/", "a", "d", "m", "i", "n">>
P_adminLogin == <<"/", "a", "d", "m", "i", "n", "/", "l", "o", "g", "i", "n">>
P_verifyOtp == <<"/", "v", "e", "r", "i", "f", "y", "-", "o", "t", "p">>
P_signup == <<"/", "s", "i", "g", "n", "u", "p">>
P_adminUsers == <<"/", "a", "d", "m", "i", "n", "/", "u", "s", "e", "r", "s">>

\* main layout, line 8.
protectedRoutes == {P_dashboard, P_profile, P_onboarding}

\* The pages rendered inside each layout: the values usePathname() can have.
MainPaths == {P_dashboard, P_profile, P_onboarding, P_programs, P_program}
AdminPaths == {P_admin, P_adminLogin, P_adminUsers}

\* encodeURIComponent: everything but the unreserved characters is escaped.
Escapes == [c \in {"/", "%", "+", " ", "&", "=", "?", "#", "@"} |->
              CASE c = "/" -> <<"%", "2", "F">>
                [] c = "@" -> <<"%", "4", "0">>
                [] c = "%" -> <<"%", "2", "5">>
                [] c = "+" -> <<"%", "2", "B">>
                [] c = " " -> <<"%", "2", "0">>
                [] c = "&" -> <<"%", "2", "6">>
                [] c = "=" -> <<"%", "3", "D">>
                [] c = "?" -> <<"%", "3", "F">>
                [] c = "#" -> <<"%", "2", "3">>]

RECURSIVE encodeURIComponent(_)
encodeURIComponent(s) ==
    IF s = <<>> THEN <<>>
    ELSE (IF Head(s) \in DOMAIN Escapes THEN Escapes[Head(s)] ELSE <<Head(s)>>)
         \o encodeURIComponent(Tail(s))

\* URLSearchParams decoding of a raw value: + is a space, %XX is unescaped.
Unescape(e) == CHOOSE c \in DOMAIN Escapes : Escapes[c] = e

RECURSIVE decodeValue(_)
decodeValue(s) ==
    IF s = <<>> THEN <<>>
    ELSE IF Head(s) = "+" THEN <<" ">> \o decodeValue(Tail(s))
    ELSE IF Head(s) = "%" /\ Len(s) >= 3
            /\ \E c \in DOMAIN Escapes : Escapes[c] = SubSeq(s, 1, 3)
         THEN <<Unescape(SubSeq(s, 1, 3))>> \o decodeValue(SubSeq(s, 4, Len(s)))
    ELSE <<Head(s)>> \o decodeValue(Tail(s))

\* The raw value ends at the next & or #.
RECURSIVE rawValue(_)
rawValue(s) ==
    IF s = <<>> \/ Head(s) \in {"&", "#"} THEN <<>>
    ELSE <<Head(s)>> \o rawValue(Tail(s))

\* A URL handed to router.push: the path and, for the login redirect, the
\* text after "?redirect=".
Url(path) == [pathname |-> path, redirect |-> None]
\* `/login?redirect=${encodeURIComponent(pathname)}` (main layout, line 25).
loginUrl(pathname) ==
    [pathname |-> P_login, redirect |-> Some(encodeURIComponent(pathname))]

\* searchParams.get("redirect") || "/dashboard" (login page, line 14).
redirectTo(url) ==
    IF url.redirect = None \/ decodeValue(rawValue(url.redirect[1])) = <<>>
    THEN P_dashboard
    ELSE decodeValue(rawValue(url.redirect[1]))

\* router.push(url) by a component; `from` is the page it is made on, which
\* router.push is not told.
push(s, by, from, url) ==
    [s EXCEPT !.nav = Some([by |-> by, to |-> url])]

\* ------------------------------------------------------- route guards
isProtectedRoute(pathname) ==
    \E route \in protectedRoutes : startsWith(pathname, route)

\* The main layout's effect without its isLoading check.
MainLayoutGuard_noLoadingCheck(s, pathname) ==
    IF isProtectedRoute(pathname) /\ ~s.isAuthenticated
    THEN push(s, "MainLayout", pathname, loginUrl(pathname))
    ELSE IF /\ s.isAuthenticated
            /\ ~s.hasCompletedOnboarding
            /\ pathname # P_onboarding
            /\ isProtectedRoute(pathname)
    THEN push(s, "MainLayout", pathname, Url(P_onboarding))
    ELSE s

\* The main layout's effect redirecting to onboarding from every page.
MainLayoutGuard_anyPath(s, pathname) ==
    IF s.isLoading THEN s
    ELSE IF isProtectedRoute(pathname) /\ ~s.isAuthenticated
    THEN push(s, "MainLayout", pathname, loginUrl(pathname))
    ELSE IF /\ s.isAuthenticated
            /\ ~s.hasCompletedOnboarding
            /\ pathname # P_onboarding
    THEN push(s, "MainLayout", pathname, Url(P_onboarding))
    ELSE s

\* The redirect effect of the main layout (lines 19-38).
MainLayoutGuard(s, pathname) ==
    IF s.isLoading THEN s
    ELSE IF isProtectedRoute(pathname) /\ ~s.isAuthenticated
    THEN push(s, "MainLayout", pathname, loginUrl(pathname))
    ELSE IF /\ s.isAuthenticated
            /\ ~s.hasCompletedOnboarding
            /\ pathname # P_onboarding
            /\ isProtectedRoute(pathname)
    THEN push(s, "MainLayout", pathname, Url(P_onboarding))
    ELSE s

\* The main layout showing its spinner on every page while loading.
MainLayoutRender_anyPath(s, pathname) ==
    IF s.isLoading THEN "loading" ELSE "children"

\* What the main layout renders (lines 40-54).
MainLayoutRender(s, pathname) ==
    IF s.isLoading /\ isProtectedRoute(pathname) THEN "loading" ELSE "children"

\* The redirect effect of the admin layout (lines 36-48).
AdminLayoutGuard(s, pathname) ==
    IF s.isLoading THEN s
    ELSE IF ~s.isAuthenticated
    THEN push(s, "AdminLayout", pathname, Url(P_adminLogin))
    ELSE IF s.user = None \/ s.user[1].role # "admin"
    THEN push(s, "AdminLayout", pathname, Url(P_dashboard))
    ELSE s

\* The admin layout rendering for every signed-in user.
AdminLayoutRender_anyRole(s, pathname) ==
    IF pathname = P_adminLogin THEN "children"
    ELSE IF s.isLoading THEN "loading"
    ELSE IF ~s.isAuthenticated THEN "null"
    ELSE "children"

\* What the admin layout renders (lines 55-72): the bare page for the login
\* path, the spinner, nothing, or the page inside the admin chrome.
AdminLayoutRender(s, pathname) ==
    IF pathname = P_adminLogin THEN "children"
    ELSE IF s.isLoading THEN "loading"
    ELSE IF ~s.isAuthenticated \/ s.user = None \/ s.user[1].role # "admin"
    THEN "null"
    ELSE "children"

\* The effects run after every render; the current location is an input.
MainLayoutEffect ==
    \E pathname \in MainPaths :
        /\ MainLayoutGuard(Cur, pathname).nav # None
        /\ Commit(MainLayoutGuard(Cur, pathname))

AdminLayoutEffect ==
    \E pathname \in AdminPaths :
        /\ AdminLayoutGuard(Cur, pathname).nav # None
        /\ Commit(AdminLayoutGuard(Cur, pathname))

\* ------------------------------------------------------------ logout
\* logout after its awaited revoke call (or without one): lines 182-190.
\* What the caller of logout does when it returns: the admin layout's
\* handleLogout goes to the admin login (admin layout, lines 50-53); the
\* navbar's handleLogout only closes a menu; a logout started by the store
\* itself is not awaited by anyone.
logoutReturned(s, caller) ==
    IF caller = "AdminLayout"
    THEN push(s, "AdminLayout.handleLogout", P_admin, Url(P_adminLogin))
    ELSE s

logoutFinish(s, caller) ==
    logoutReturned(
        return(logoutCompleted(
                   set(CookiesRemove(CookiesRemove(s, "access_token"), "refresh_token"),
                       [user |-> None, profile |-> None, isAuthenticated |-> FALSE,
                        hasCompletedOnboarding |-> FALSE])),
               Returned("logout", TRUE, None, None)),
        caller)

\* logout up to its first await: with a refresh token it awaits the revoke.
logout(s, caller) ==
    IF s.cookies.refresh_token # None
    THEN await(s, Cont("logout", "revoke", caller, FALSE, 0))
    ELSE logoutFinish(s, caller)

\* The revoke call settled: its result is ignored; a rejection propagates
\* (logout has no try/catch) and skips the rest of the body.
logoutResumed(s, c, r) ==
    IF r.threw THEN return(s, Threw("logout")) ELSE logoutFinish(s, c.caller)

\* The navbar offers its logout button to a signed-in user (Navbar, lines
\* 91-121) on the pages the main layout renders; the admin layout offers its
\* own inside the admin chrome (admin layout, lines 68-128).
Logout ==
    \/ /\ isAuthenticated
       /\ \E p \in MainPaths : MainLayoutRender(Cur, p) = "children"
       /\ Commit(logout(Cur, "Navbar"))
    \/ /\ \E p \in AdminPaths \ {P_adminLogin} :
              AdminLayoutRender(Cur, p) = "children"
       /\ Commit(logout(Cur, "AdminLayout"))

\* logout called on the store directly, in any state; as with a logout the
\* store starts itself, nothing is done when it returns.
LogoutCall ==
    Commit(logout(Cur, "store"))

LogoutResponse ==
    \E c \in Awaiting("logout", "revoke") :
    \E o \in Outcomes({[message |-> "ok"]}) :
        Commit(logoutResumed(resumed(Cur, c), c, request(o)))

\* -------------------------------------------------------- refreshAuth
\* The pair answered by the refresh endpoint is stored without an expires
\* attribute (lines 205-206).
refreshFailed(r) == r.threw \/ r.error # None \/ r.data = None

\* refreshAuth that reports a failed exchange without calling logout.
refreshAuthResumed_noLogout(s, r) ==
    IF refreshFailed(r)
    THEN return(s, Returned("refreshAuth", FALSE, None, None))
    ELSE return(CookiesSet(CookiesSet(s, "access_token", r.data[1].access_token,
                                      SessionCookie),
                           "refresh_token", r.data[1].refresh_token, SessionCookie),
                Returned("refreshAuth", TRUE, None, None))

\* refreshAuth after its awaited exchange: the state it leaves (lines 200-211).
refreshAuthResumed(s, r) ==
    IF refreshFailed(r)
    THEN return(logout(s, "store"), Returned("refreshAuth", FALSE, None, None))
    ELSE return(CookiesSet(CookiesSet(s, "access_token", r.data[1].access_token,
                                      SessionCookie),
                           "refresh_token", r.data[1].refresh_token, SessionCookie),
                Returned("refreshAuth", TRUE, None, None))

\* refreshAuth without a refresh token: returns false at once (line 195).
refreshAuthNoToken(s) == return(s, Returned("refreshAuth", FALSE, None, None))

RefreshAuth ==
    Commit(IF cookies.refresh_token = None
           THEN refreshAuthNoToken(Cur)
           ELSE await(Cur, Cont("refreshAuth", "refresh", "app", FALSE, 0)))

RefreshAuthResponse ==
    \E c \in Awaiting("refreshAuth", "refresh") :
    \E o \in Outcomes(TokenPairs) :
        Commit(refreshAuthResumed(resumed(Cur, c), request(o)))

\* ---------------------------------------------------------- checkAuth
\* checkAuth without its finally block.
checkAuthFinally_loadingKept(s) ==
    return(s, Returned("checkAuth", TRUE, None, None))

\* The finally block and the return (lines 253-255).
checkAuthFinally(s) ==
    return(set(s, [isLoading |-> FALSE]), Returned("checkAuth", TRUE, None, None))

\* checkAuth without its test of the access token.
checkAuth_tokenUnchecked(s, depth) ==
    await(set(s, [isLoading |-> TRUE]),
          Cont("checkAuth", "status", "layout", FALSE, depth))

\* checkAuth up to its first await (lines 215-224); depth counts the
\* enclosing checkAuth calls that wait for this one.
checkAuth(s, depth) ==
    LET s1 == set(s, [isLoading |-> TRUE]) IN
    IF s1.cookies.access_token = None
    THEN return(set(s1, [isLoading |-> FALSE]),
                Returned("checkAuth", TRUE, None, None))
    ELSE await(s1, Cont("checkAuth", "status", "layout", FALSE, depth))

\* After refreshAuth returned inside checkAuth (lines 229-234).
checkAuthRefreshed(s, refreshed, depth) ==
    IF refreshed THEN checkAuth(s, depth + 1) ELSE checkAuthFinally(s)

\* checkAuth that takes the user from the status answer and leaves the
\* onboarding flag cleared.
checkAuthStatusResumed_flagCleared(s, c, r) ==
    IF r.threw THEN checkAuthFinally(logout(s, "store"))
    ELSE IF r.error # None
    THEN IF s.cookies.refresh_token = None
         THEN checkAuthRefreshed(refreshAuthNoToken(s), FALSE, c.depth)
         ELSE await(s, Cont("checkAuth", "refresh", "layout", FALSE, c.depth))
    ELSE IF r.data # None
    THEN LET d == r.data[1]
             s1 == observe(set(s, [user |-> Some(d.user), isAuthenticated |-> TRUE,
                                   hasCompletedOnboarding |-> FALSE]),
                           StatusRead("checkAuth", d))
         IN IF d.onboarding_completed
            THEN await(s1, Cont("checkAuth", "profile", "layout", FALSE, 0))
            ELSE checkAuthFinally(s1)
    ELSE checkAuthFinally(s)

\* The status call settled (lines 224-250).
checkAuthStatusResumed(s, c, r) ==
    IF r.threw THEN checkAuthFinally(logout(s, "store"))
    ELSE IF r.error # None
    THEN IF s.cookies.refresh_token = None
         THEN checkAuthRefreshed(refreshAuthNoToken(s), FALSE, c.depth)
         ELSE await(s, Cont("checkAuth", "refresh", "layout", FALSE, c.depth))
    ELSE IF r.data # None
    THEN LET d == r.data[1]
             s1 == observe(set(s, [user |-> Some(d.user), isAuthenticated |-> TRUE,
                                   hasCompletedOnboarding |-> d.onboarding_completed]),
                           StatusRead("checkAuth", d))
         IN IF d.onboarding_completed
            THEN await(s1, Cont("checkAuth", "profile", "layout", FALSE, 0))
            ELSE checkAuthFinally(s1)
    ELSE checkAuthFinally(s)

\* The profile call settled (lines 245-255).
checkAuthProfileResumed(s, r) ==
    IF r.threw THEN checkAuthFinally(logout(s, "store"))
    ELSE IF r.data # None THEN checkAuthFinally(set(s, [profile |-> r.data]))
    ELSE checkAuthFinally(s)

CheckAuth ==
    Commit(checkAuth(Cur, 0))

CheckAuthStatusResponse ==
    \E c \in Awaiting("checkAuth", "status") :
    \E o \in Outcomes(StatusData) :
        Commit(checkAuthStatusResumed(resumed(Cur, c), c, request(o)))

\* The exchange started by refreshAuth inside checkAuth settled.  The retry
\* is unbounded in the code; the model stops following it at MaxDepth.
CheckAuthRefreshResponse ==
    \E c \in Awaiting("checkAuth", "refresh") :
    \E o \in Outcomes(TokenPairs) :
        LET r == request(o) IN
        /\ refreshFailed(r) \/ c.depth < MaxDepth
        /\ Commit(checkAuthRefreshed(refreshAuthResumed(resumed(Cur, c), r),
                                     ~refreshFailed(r), c.depth))

CheckAuthProfileResponse ==
    \E c \in Awaiting("checkAuth", "profile") :
    \E o \in Outcomes(UserProfiles) :
        Commit(checkAuthProfileResumed(resumed(Cur, c), request(o)))

\* ------------------------------------------------------------- login
\* The lifetime when rememberMe is not looked at.
expiryDays_alwaysSession(rememberMe) == TOKEN_EXPIRY_DAYS_SESSION

expiryDays(rememberMe) ==
    IF rememberMe THEN TOKEN_EXPIRY_DAYS_REMEMBER ELSE TOKEN_EXPIRY_DAYS_SESSION

\* Lines 83-85 and 150-152: both tokens stored with the same lifetime.
storeCredentials(s, pair, rememberMe) ==
    CookiesSet(CookiesSet(s, "access_token", pair.access_token, expiryDays(rememberMe)),
               "refresh_token", pair.refresh_token, expiryDays(rememberMe))

\* The Authorization header request attaches (adapter, lines 278-282): the
\* access token the cookie jar holds when the call is made, if any.
bearer(s) ==
    IF s.cookies.access_token = None THEN None
    ELSE Some(s.cookies.access_token[1].value)

\* The pair an operation has received, and the status call it makes.
Issued(op, pair) == [op |-> "issued", by |-> op, pair |-> pair]
StatusRequest(op, s) ==
    [op |-> "request", by |-> op, endpoint |-> "/auth/status", bearer |-> bearer(s)]

\* The acquisition with getStatus called before the pair is stored.
acquire_statusFirst(s, c, pair) ==
    LET s1 == observe(observe(s, Issued(c.op, pair)), StatusRequest(c.op, s))
    IN await(storeCredentials(s1, pair, c.rememberMe),
             [c EXCEPT !.at = "status", !.rememberMe = FALSE])

\* Lines 82-88 and 149-155: the pair is stored, then getStatus is called.
acquire(s, c, pair) ==
    LET s1 == storeCredentials(observe(s, Issued(c.op, pair)), pair, c.rememberMe)
    IN await(observe(s1, StatusRequest(c.op, s1)),
             [c EXCEPT !.at = "status", !.rememberMe = FALSE])

\* A failure that carries no error text.
Failure_noError(op, msg) == Returned(op, FALSE, None, None)

Failure(op, msg) == Returned(op, FALSE, Some(msg), None)

\* The URLs the login page can be showing: plain, or with the redirect
\* parameter written by the main layout.
LoginUrls == {Url(P_login)} \cup {loginUrl(p) : p \in protectedRoutes}

\* What the caller of login does when it returns.  LoginContent.handleSubmit
\* (login page, lines 31-41) goes to onboarding or to the return target of
\* the URL it was rendered with; AdminLoginPage.handleSubmit (lines 39-46)
\* calls checkAuth again.
loginReturned(s, caller, ret, url) ==
    LET s1 == return(s, ret) IN
    IF ~ret.success THEN s1
    ELSE IF caller = "LoginContent"
    THEN push(s1, "LoginContent", P_login,
              IF ret.requiresOnboarding = Some(TRUE) THEN Url(P_onboarding)
              ELSE Url(redirectTo(url)))
    ELSE checkAuth(s1, 0)

\* The sign-in call settled (lines 76-88, 111-113).
loginSigninResumed(s, c, r, caller, url) ==
    IF r.threw
    THEN loginReturned(s, caller, Failure("login", "An unexpected error occurred"), url)
    ELSE IF r.error # None
    THEN loginReturned(s, caller, Failure("login", r.error[1].message), url)
    ELSE IF r.data # None
    THEN acquire(s, c, r.data[1])
    ELSE loginReturned(s, caller, Failure("login", "Login failed"), url)

\* The continuation of login that awaits the profile keeps the local
\* statusResponse, which line 106 reads after the await.
withStatus(c, d) ==
    [op |-> c.op, at |-> c.at, caller |-> c.caller, rememberMe |-> c.rememberMe,
     depth |-> c.depth, status |-> d]

\* The status call of login settled (lines 88-113).
loginStatusResumed(s, c, r, caller, url) ==
    IF r.threw
    THEN loginReturned(s, caller, Failure("login", "An unexpected error occurred"), url)
    ELSE IF r.data # None
    THEN LET d == r.data[1]
             s1 == set(s, [user |-> Some(d.user), isAuthenticated |-> TRUE,
                           hasCompletedOnboarding |-> d.onboarding_completed])
         IN IF d.onboarding_completed
            THEN await(s1, withStatus([c EXCEPT !.at = "profile"], d))
            ELSE loginReturned(observe(s1, StatusRead("login", d)), caller,
                               Returned("login", TRUE, None,
                                        Some(~d.onboarding_completed)),
                               url)
    ELSE loginReturned(s, caller, Failure("login", "Login failed"), url)

\* The profile call of login settled (lines 98-107); it is only made when
\* onboarding_completed was true.
loginProfileResumed(s, c, r, caller, url) ==
    IF r.threw
    THEN loginReturned(s, caller, Failure("login", "An unexpected error occurred"), url)
    ELSE loginReturned(observe(IF r.data # None THEN set(s, [profile |-> r.data])
                               ELSE s,
                               StatusRead("login", c.status)),
                       caller,
                       Returned("login", TRUE, None,
                                Some(~c.status.onboarding_completed)),
                       url)

\* login is called by LoginContent and by AdminLoginPage.  The caller and
\* the URL the login page was rendered with are read only when login returns
\* with success, so they are drawn there and not kept in the continuation.
LoginCallers == {"LoginContent", "AdminLoginPage"}

ReturnsTo(caller) ==
    IF caller = "LoginContent" THEN LoginUrls ELSE {Url(P_adminLogin)}

Login ==
    \E rememberMe \in BOOLEAN :
        Commit(await(signInStarted(Cur), Cont("login", "signin", "page", rememberMe, 0)))

LoginSigninResponse ==
    \E c \in Awaiting("login", "signin") :
    \E o \in Outcomes(TokenPairs) :
        Commit(loginSigninResumed(resumed(Cur, c), c, request(o),
                                  "LoginContent", Url(P_login)))

LoginStatusResponse ==
    \E c \in Awaiting("login", "status") :
    \E o \in Outcomes(StatusData) :
    \E caller \in LoginCallers :
    \E url \in ReturnsTo(caller) :
        Commit(loginStatusResumed(resumed(Cur, c), c, request(o), caller, url))

LoginProfileResponse ==
    \E c \in Awaiting("login", "profile") :
    \E o \in Outcomes(UserProfiles) :
    \E caller \in LoginCallers :
    \E url \in ReturnsTo(caller) :
        Commit(loginProfileResumed(resumed(Cur, c), c, request(o), caller, url))

\* ---------------------------------------------------------- verifyOtp
\* VerifyOTPContent.handleSubmit after verifyOtp returned (verify page,
\* lines 522-534).
verifyOtpReturned(s, ret) ==
    LET s1 == return(s, ret) IN
    IF ~ret.success THEN s1
    ELSE push(s1, "VerifyOTPContent", P_verifyOtp,
              IF ret.requiresOnboarding = Some(TRUE) THEN Url(P_onboarding)
              ELSE Url(P_dashboard))

\* The verify call settled (lines 143-155, 170-172).
verifyOtpResumed(s, c, r) ==
    IF r.threw
    THEN verifyOtpReturned(s, Failure("verifyOtp", "An unexpected error occurred"))
    ELSE IF r.error # None
    THEN verifyOtpReturned(s, Failure("verifyOtp", r.error[1].message))
    ELSE IF r.data # None
    THEN acquire(s, c, r.data[1])
    ELSE verifyOtpReturned(s, Failure("verifyOtp", "Verification failed"))

\* The status call of verifyOtp settled (lines 155-172).
verifyOtpStatusResumed(s, r) ==
    IF r.threw
    THEN verifyOtpReturned(s, Failure("verifyOtp", "An unexpected error occurred"))
    ELSE IF r.data # None
    THEN LET d == r.data[1] IN
         verifyOtpReturned(
             set(s, [user |-> Some(d.user), isAuthenticated |-> TRUE,
                     hasCompletedOnboarding |-> d.onboarding_completed]),
             Returned("verifyOtp", TRUE, None, Some(~d.onboarding_completed)))
    ELSE verifyOtpReturned(s, Failure("verifyOtp", "Verification failed"))

VerifyOtp ==
    \E rememberMe \in BOOLEAN :
        Commit(await(signInStarted(Cur),
                     Cont("verifyOtp", "verify", "VerifyOTPContent", rememberMe, 0)))

VerifyOtpResponse ==
    \E c \in Awaiting("verifyOtp", "verify") :
    \E o \in Outcomes(TokenPairs) :
        Commit(verifyOtpResumed(resumed(Cur, c), c, request(o)))

VerifyOtpStatusResponse ==
    \E c \in Awaiting("verifyOtp", "status") :
    \E o \in Outcomes(StatusData) :
        Commit(verifyOtpStatusResumed(resumed(Cur, c), request(o)))

\* ------------------------------------------------------------- signup
\* What the signup form can hold (signup page, lines 184-191).
Emails == {<<>>, <<"a", "b">>, <<"a", "@", "b">>, <<"a", "@", "b", ".", "c">>}
Passwords == {<<>>, <<"p", "a", "s", "s", "w", "o", "r">>,
              <<"p", "a", "s", "s", "w", "o", "r", "d">>}
Forms == [email : Emails, password : Passwords, confirmPassword : Passwords,
          privacyConsent : BOOLEAN, dataProcessingConsent : BOOLEAN,
          marketingConsent : BOOLEAN]

\* /^[^\s@]+@[^\s@]+\.[^\s@]+$/ (line 200): one @ that is not first, no
\* white space, and after the @ a dot that has text on both sides.
emailValid(e) ==
    \E i \in 2..Len(e) :
        /\ e[i] = "@"
        /\ \A k \in 1..Len(e) : k # i => e[k] \notin {"@", " "}
        /\ \E j \in (i + 2)..(Len(e) - 1) : e[j] = "."

MinPasswordLength == 8

\* validateForm (lines 195-224): the fields it reports an error for.
formErrors(form) ==
    (IF form.email = <<>> \/ ~emailValid(form.email) THEN {"email"} ELSE {})
    \cup (IF form.password = <<>> \/ Len(form.password) < MinPasswordLength
          THEN {"password"} ELSE {})
    \cup (IF form.password # form.confirmPassword THEN {"confirmPassword"} ELSE {})
    \cup (IF ~form.privacyConsent THEN {"privacyConsent"} ELSE {})
    \cup (IF ~form.dataProcessingConsent THEN {"dataProcessingConsent"} ELSE {})

\* validateForm without its two consent checks.
validateForm_noConsents(form) ==
    formErrors(form) \ {"privacyConsent", "dataProcessingConsent"} = {}

validateForm(form) == formErrors(form) = {}

Consents == [privacy : BOOLEAN, dataProcessing : BOOLEAN, marketing : BOOLEAN]

\* The required consents in the body signup posts to /auth/signup (lines
\* 119-125).
SignupRequest(caller, consents) ==
    [op |-> "request", by |-> caller, endpoint |-> "/auth/signup",
     privacy_consent |-> consents.privacy,
     data_processing_consent |-> consents.dataProcessing]

SignupData == {[user_id |-> "p1"]}

\* signup up to its await: it posts whatever consents it is given.
signup(s, caller, consents) ==
    await(observe(s, SignupRequest(caller, consents)),
          Cont("signup", "signup", caller, FALSE, 0))

\* signup that answers a response without data as a success.
signupResult_alwaysSuccess(r) ==
    IF r.threw THEN Failure("signup", "An unexpected error occurred")
    ELSE IF r.error # None THEN Failure("signup", r.error[1].message)
    ELSE [op |-> "signup", success |-> TRUE, error |-> None,
          userId |-> IF r.data # None THEN Some(r.data[1].user_id) ELSE None,
          threw |-> FALSE]

\* What signup returns once its call settled (lines 127-138).
signupResult(r) ==
    IF r.threw THEN Failure("signup", "An unexpected error occurred")
    ELSE IF r.error # None THEN Failure("signup", r.error[1].message)
    ELSE IF r.data # None
    THEN [op |-> "signup", success |-> TRUE, error |-> None,
          userId |-> Some(r.data[1].user_id), threw |-> FALSE]
    ELSE Failure("signup", "Signup failed")

\* `/verify-otp?email=${encodeURIComponent(formData.email)}` (line 241).
verifyOtpUrl(email) ==
    [pathname |-> P_verifyOtp, redirect |-> None,
     email |-> Some(encodeURIComponent(email))]

\* The signup call settled; SignupPage.handleSubmit then goes to the OTP
\* page (lines 239-244).
signupResumed(s, c, r, email) ==
    LET s1 == return(s, signupResult(r)) IN
    IF c.caller = "SignupPage" /\ signupResult(r).success
    THEN push(s1, "SignupPage", P_signup, verifyOtpUrl(email))
    ELSE s1

\* SignupPage.handleSubmit (lines 226-237): nothing is sent unless
\* validateForm passes.
\* The forms handleSubmit goes on with.
SubmittedForms == {form : form \in {f \in Forms : validateForm(f)}}

SignupSubmit ==
    \E form \in SubmittedForms :
        Commit(signup(Cur, "SignupPage",
                      [privacy |-> form.privacyConsent,
                       dataProcessing |-> form.dataProcessingConsent,
                       marketing |-> form.marketingConsent]))

\* signup called on the store directly, with any required consents.
SignupCall ==
    \E consents \in {c \in Consents : ~c.marketing} :
        Commit(signup(Cur, "app", consents))

SignupResponse ==
    \E c \in Awaiting("signup", "signup") :
    \E o \in Outcomes(SignupData) :
    \E email \in {form.email : form \in SubmittedForms} :
        Commit(signupResumed(resumed(Cur, c), c, request(o), email))

\* ------------------------------------------------------ password reset
\* ForgotPasswordPage (part_005, lines 474-545 and the buttons of its steps).
setForgot(s, partial) == [s EXCEPT !.forgot = set(@, partial)]

Digits == {"0", "1", "2", "3", "4", "5", "6", "7", "8", "9"}
IsDigit(ch) == ch \in Digits
OtpLength == 6

\* e.target.value.replace(/\D/g, "").slice(0, 6) (line 646).
otpInput(text) ==
    LET d == SelectSeq(text, IsDigit)
    IN SubSeq(d, 1, IF Len(d) < OtpLength THEN Len(d) ELSE OtpLength)

\* What can be typed into the code field.
OtpTexts == {<<>>, <<"1", "2", "x">>, <<"1", "2", "3", "4", "5", "6">>,
             <<"6", "5", "4", "3", "2", "1", "0">>}

\* Bodies of the non-2xx answers of /auth/reset-password.
ResetErrorBodies ==
    {None}
    \cup {Some([detailObj |-> Some([message |-> Some("Invalid or expired OTP"),
                                   code |-> Some(c)]),
                detailStr |-> None, message |-> None, code |-> None]) :
             c \in {"INVALID_OTP", "OTP_EXPIRED"}}
    \cup {Some([detailObj |-> None, detailStr |-> Some("Password too weak"),
                message |-> None, code |-> c]) :
             c \in {None, Some("WEAK_PASSWORD"), Some("OTP_EXPIRED")}}
ResetOutcomes ==
    {Transport, HttpOk(None), HttpOk(Some([message |-> "ok"]))}
    \cup {HttpError(b) : b \in ResetErrorBodies}

ForgotCont(at) == Cont("forgotPassword", at, "ForgotPasswordPage", FALSE, 0)
ForgotAnswered(at, r) == [op |-> "answered", at |-> at, error |-> r.error]

\* handleEmailSubmit up to its await (lines 485-490); the submit button is
\* disabled while isSubmitting (Button, part_001 line 54).
handleEmailSubmit(s) ==
    await(setForgot(s, [error |-> "", isSubmitting |-> TRUE]), ForgotCont("forgot"))

\* handleEmailSubmit after its await (lines 492-498).
handleEmailResumed(s, r) ==
    LET s1 == IF r.error # None
              THEN setForgot(s, [error |-> r.error[1].message])
              ELSE setForgot(s, [step |-> "otp"])
    IN observe(setForgot(s1, [isSubmitting |-> FALSE]), ForgotAnswered("forgot", r))

\* handleOtpSubmit (lines 501-509).
handleOtpSubmit(s) ==
    IF Len(s.forgot.otp) # OtpLength
    THEN setForgot(s, [error |-> "Please enter the complete 6-digit code"])
    ELSE setForgot(s, [error |-> "", step |-> "newPassword"])

\* handlePasswordSubmit up to its await (lines 511-531).
handlePasswordSubmit(s) ==
    IF Len(s.forgot.password) < MinPasswordLength
    THEN setForgot(s, [error |-> "Password must be at least 8 characters"])
    ELSE IF s.forgot.password # s.forgot.confirmPassword
    THEN setForgot(s, [error |-> "Passwords do not match"])
    ELSE await(setForgot(s, [error |-> "", isSubmitting |-> TRUE]), ForgotCont("reset"))

\* handlePasswordSubmit going back to the code step on every error.
handlePasswordResumed_anyErrorBack(s, r) ==
    LET s1 == IF r.error # None
              THEN setForgot(s, [error |-> r.error[1].message, step |-> "otp",
                                 otp |-> <<>>])
              ELSE setForgot(s, [step |-> "success"])
    IN observe(setForgot(s1, [isSubmitting |-> FALSE]), ForgotAnswered("reset", r))

\* handlePasswordSubmit after its await (lines 533-544).
handlePasswordResumed(s, r) ==
    LET s1 == IF r.error # None
              THEN IF r.error[1].code \in {Some("INVALID_OTP"), Some("OTP_EXPIRED")}
                   THEN setForgot(s, [error |-> r.error[1].message, step |-> "otp",
                                      otp |-> <<>>])
                   ELSE setForgot(s, [error |-> r.error[1].message])
              ELSE setForgot(s, [step |-> "success"])
    IN observe(setForgot(s1, [isSubmitting |-> FALSE]), ForgotAnswered("reset", r))

ForgotEmailSubmit ==
    /\ forgot.step = "email" /\ ~forgot.isSubmitting
    /\ Commit(handleEmailSubmit(Cur))

ForgotEmailResponse ==
    \E c \in Awaiting("forgotPassword", "forgot") :
    \E o \in ResetOutcomes :
        Commit(handleEmailResumed(resumed(Cur, c), request(o)))

\* Typing into the code field (line 646).
ForgotOtpInput ==
    /\ forgot.step = "otp"
    /\ \E text \in OtpTexts : Commit(setForgot(Cur, [otp |-> otpInput(text)]))

ForgotOtpSubmit ==
    /\ forgot.step = "otp"
    /\ Commit(handleOtpSubmit(Cur))

\* The Change Email button of the code step (lines 662-668).
ForgotChangeEmail ==
    /\ forgot.step = "otp"
    /\ Commit(setForgot(Cur, [step |-> "email"]))

\* Typing into the two password fields (lines 704, 715).
ForgotPasswordInput ==
    /\ forgot.step = "newPassword"
    /\ \E p \in Passwords, q \in Passwords :
           Commit(setForgot(Cur, [password |-> p, confirmPassword |-> q]))

ForgotPasswordSubmit ==
    /\ forgot.step = "newPassword" /\ ~forgot.isSubmitting
    /\ Commit(handlePasswordSubmit(Cur))

ForgotPasswordResponse ==
    \E c \in Awaiting("forgotPassword", "reset") :
    \E o \in ResetOutcomes :
        Commit(handlePasswordResumed(resumed(Cur, c), request(o)))

\* ------------------------------------------------- the adapter alone
\* The JSON bodies a non-2xx answer can carry, by the fields request reads:
\* detail is absent, a string or an object; every string may be empty.
Texts(t) == {None, Some(""), Some(t)}
Details ==
    {[detailObj |-> None, detailStr |-> t] : t \in Texts("d")}
    \cup {[detailObj |-> Some([message |-> m, code |-> c]), detailStr |-> None] :
              m \in Texts("m"), c \in Texts("c")}
AllErrorBodies ==
    {None} \cup {Some([detailObj |-> d.detailObj, detailStr |-> d.detailStr,
                       message |-> m, code |-> c]) :
                     d \in Details, m \in Texts("m"), c \in Texts("c")}

\* Everything fetch can produce, for any endpoint.
AllOutcomes ==
    {Transport, HttpOk(None)}
    \cup {HttpError(b) : b \in AllErrorBodies}
    \cup {HttpOk(Some(d)) : d \in StatusData}
    \cup {HttpOk(Some(d)) : d \in TokenPairs}

ApiResponded(o, r) == [op |-> "response", outcome |-> o, response |-> r]

\* One call through api.get/post/put/patch/delete, from the call to the
\* ApiResponse it resolves to.
ApiCall ==
    \E o \in AllOutcomes : Commit(observe(Cur, ApiResponded(o, request(o))))

\* ------------------------------------------------- setters, environment
\* setUser that leaves isAuthenticated as it was.
setUser_flagKept(s, u) == set(s, [user |-> u])

\* setUser (lines 60-64).
setUser(s, u) == set(s, [user |-> u, isAuthenticated |-> u # None])

\* setProfile that stores the profile and leaves the flag alone.
setProfile_flagKept(s, p) == set(s, [profile |-> p])

\* setProfile (lines 66-70): !!profile?.onboarding_completed_at.
setProfile(s, p) ==
    set(s, [profile |-> p,
            hasCompletedOnboarding |->
                (p # None /\ p[1].onboarding_completed_at # None)])

SetUser ==
    \E u \in {None} \cup {Some(x) : x \in Users} :
        Commit(setUser(Cur, u))

\* A page of the main layout is on screen when the layout renders its
\* children and its effect does not send the user elsewhere.
Showing(pathname) ==
    /\ MainLayoutRender(Cur, pathname) = "children"
    /\ MainLayoutGuard(Cur, pathname).nav = None

\* OnboardingPage.handleSubmit after the onboarding call settled (onboarding
\* page, lines 145-150).
ProfileReturned(d) == [op |-> "onboarded", data |-> d]

onboardingResumed(s, r) ==
    IF r.error # None THEN s
    ELSE IF r.data # None
    THEN push(observe(setProfile(s, r.data), ProfileReturned(r.data[1])),
              "OnboardingPage", P_onboarding, Url(P_dashboard))
    ELSE s

\* ProfilePage.handleSave after the update call settled (profile page,
\* lines 46-49).
profileSaveResumed(s, r) ==
    IF r.data # None THEN setProfile(s, r.data) ELSE s

OnboardingSubmit ==
    /\ Showing(P_onboarding)
    /\ Commit(await(Cur, Cont("onboarding", "submit", "OnboardingPage", FALSE, 0)))

OnboardingResponse ==
    \E c \in Awaiting("onboarding", "submit") :
    \E o \in Outcomes(UserProfiles) :
        Commit(onboardingResumed(resumed(Cur, c), request(o)))

ProfileSave ==
    /\ Showing(P_profile)
    /\ Commit(await(Cur, Cont("profileSave", "update", "ProfilePage", FALSE, 0)))

ProfileSaveResponse ==
    \E c \in Awaiting("profileSave", "update") :
    \E o \in Outcomes(UserProfiles) :
        Commit(profileSaveResumed(resumed(Cur, c), request(o)))

\* The browser drops cookies whose lifetime is over.  Both cookies are always
\* written together with the same lifetime, so they go together.
CookieExpiry ==
    /\ cookies # NoCookies
    /\ Commit(CookiesRemove(CookiesRemove(Cur, "access_token"), "refresh_token"))

\* A page reload: the store is created again (lines 54-58) and the persist
\* middleware restores the partialized fields (lines 260-264); every
\* continuation of the old page is gone.
Reload ==
    Commit([Cur EXCEPT !.profile = None, !.isLoading = TRUE, !.pending = EmptyBag])

\* ------------------------------------------------------ specifications
\* What the application's own components do: the page handlers, the layout
\* effects, and the browser.
NextApp ==
    \/ Logout
    \/ LogoutResponse
    \/ CheckAuth
    \/ CheckAuthStatusResponse
    \/ CheckAuthRefreshResponse
    \/ CheckAuthProfileResponse
    \/ Login
    \/ LoginSigninResponse
    \/ LoginStatusResponse
    \/ LoginProfileResponse
    \/ VerifyOtp
    \/ VerifyOtpResponse
    \/ VerifyOtpStatusResponse
    \/ OnboardingSubmit
    \/ OnboardingResponse
    \/ ProfileSave
    \/ ProfileSaveResponse
    \/ CookieExpiry
    \/ Reload
    \/ MainLayoutEffect
    \/ AdminLayoutEffect

SpecApp == Init /\ [][NextApp]_vars

\* The store as a component: also the operations it exposes that no
\* component of the application calls directly (setUser, refreshAuth) and
\* logout in the states where no component offers it.
Next ==
    \/ NextApp
    \/ LogoutCall
    \/ SetUser
    \/ RefreshAuth
    \/ RefreshAuthResponse

Spec == Init /\ [][Next]_vars

\* Registration beside the session: the signup page, signup called on the
\* store directly, and everything the components do to the session.
NextSignup ==
    \/ NextApp
    \/ SignupSubmit
    \/ SignupCall
    \/ SignupResponse

SpecSignup == Init /\ [][NextSignup]_vars

\* What the components do, with the history of logout kept.
InitTracked ==
    /\ user = None
    /\ profile = None
    /\ isAuthenticated = FALSE
    /\ isLoading = TRUE
    /\ hasCompletedOnboarding = FALSE
    /\ cookies = NoCookies
    /\ pending = EmptyBag
    /\ result = {}
    /\ nav = None
    /\ forgot = ForgotInit
    /\ sinceLogout = "no"

SpecTracked == InitTracked /\ [][NextApp]_vars

\* The password-reset page on its own.
NextForgot ==
    \/ ForgotEmailSubmit
    \/ ForgotEmailResponse
    \/ ForgotOtpInput
    \/ ForgotOtpSubmit
    \/ ForgotChangeEmail
    \/ ForgotPasswordInput
    \/ ForgotPasswordSubmit
    \/ ForgotPasswordResponse

SpecForgot == Init /\ [][NextForgot]_vars

\* The HTTP adapter on its own, over every outcome of fetch.
NextAdapter == ApiCall

SpecAdapter == Init /\ [][NextAdapter]_vars

\* ------------------------------------------------------------- claims
ReturnedBy(op) == {r \in result : r.op = op}
ReturnedBy_next(op) == {r \in result' : r.op = op}

EmptySession ==
    /\ user = None
    /\ profile = None
    /\ ~isAuthenticated
    /\ ~hasCompletedOnboarding
    /\ cookies = NoCookies

\* C1: in every reachable state isAuthenticated is true exactly when user is
\* non-null.
C1_AuthenticatedIffUser == isAuthenticated <=> (user # None)

\* A login has just returned success, the session was authenticated by it.
C1_Witness == isAuthenticated /\ \E r \in ReturnedBy("login") : r.success

\* C2: whenever logout returns it has not thrown, user and profile are null,
\* isAuthenticated and hasCompletedOnboarding are false and neither cookie is
\* stored, whatever the revoke call did.
C2_LogoutClears ==
    \A r \in ReturnedBy("logout") : ~r.threw /\ EmptySession

\* A logout the admin layout awaited has returned.
C2_Witness ==
    /\ ReturnedBy("logout") # {}
    /\ nav # None /\ nav[1].by = "AdminLayout.handleLogout"

\* C3, as claimed: a checkAuth called while no access token is stored
\* returns with isAuthenticated false.
C3_NoTokenUnauthenticated ==
    [][(/\ cookies.access_token = None
        /\ pending' = pending
        /\ ReturnedBy_next("checkAuth") # {})
       => ~isAuthenticated']_vars

\* C4, as claimed: a refreshAuth called while no refresh token is stored
\* returns false and leaves the end state of logout.
C4_NoRefreshTokenLogsOut ==
    [][(/\ cookies.refresh_token = None
        /\ \E r \in ReturnedBy_next("refreshAuth") : ~r.success)
       => EmptySession']_vars

\* C5, as claimed: a top-level checkAuth retries at most once, so no
\* checkAuth is ever nested more than one level deep.
C5_RetryDepthAtMostOne ==
    \A c \in BagToSet(pending) : c.op = "checkAuth" => c.depth <= 1

\* C6: when the exchange of a refreshAuth that found a token fails,
\* refreshAuth returns false and has called logout (which is awaiting its
\* revoke call, or has already returned with the session empty), no other
\* exchange or status call is started, and whenever a logout returns the
\* session is empty with no cookies.
Count(b, c) == IF BagIn(c, b) THEN CopiesIn(c, b) ELSE 0
At(b, stage) == {c \in BagToSet(b) : c.at = stage}
RefreshExchangeFailed ==
    /\ \E c \in At(pending, "refresh") : Count(pending', c) < Count(pending, c)
    /\ \E r \in ReturnedBy_next("refreshAuth") : ~r.success
StoreLogout == Cont("logout", "revoke", "store", FALSE, 0)
C6_FailedRefreshLogsOut ==
    /\ [][RefreshExchangeFailed =>
            /\ \A r \in ReturnedBy_next("refreshAuth") : ~r.success
            /\ \/ Count(pending', StoreLogout) = Count(pending, StoreLogout) + 1
               \/ ReturnedBy_next("logout") # {} /\ EmptySession'
            /\ \A c \in At(pending', "refresh") \cup At(pending', "status") :
                   Count(pending', c) <= Count(pending, c)]_vars
    /\ [](ReturnedBy("logout") # {} => EmptySession)

\* refreshAuth has returned false and the logout it started awaits its revoke.
C6_Witness ==
    /\ \E r \in ReturnedBy("refreshAuth") : ~r.success
    /\ BagIn(StoreLogout, pending)

\* C7: whenever checkAuth returns, isLoading is false.
C7_CheckAuthClearsLoading ==
    \A r \in ReturnedBy("checkAuth") : ~isLoading

\* checkAuth has returned after a status call that succeeded.
C7_Witness ==
    /\ ReturnedBy("checkAuth") # {}
    /\ isAuthenticated /\ cookies.access_token # None

\* C8: a step in which a layout's effect redirects starts in a state where
\* isLoading is false.
Guards == {"MainLayout", "AdminLayout"}
C8_NoRedirectWhileLoading ==
    [][(nav' # None /\ nav'[1].by \in Guards) => ~isLoading]_vars

\* The admin layout has sent a signed-in member to the dashboard.
C8_Witness ==
    /\ nav # None /\ nav[1].by = "AdminLayout" /\ nav[1].to = Url(P_dashboard)

\* C9, as claimed: while isLoading is true each layout renders its loading
\* state on every path.
C9_LoadingOnEveryPath ==
    isLoading =>
        /\ \A p \in MainPaths : MainLayoutRender(Cur, p) = "loading"
        /\ \A p \in AdminPaths : AdminLayoutRender(Cur, p) = "loading"

\* C9, amended: while isLoading is true the main layout renders its loading
\* state on /dashboard, /profile and /onboarding and its children on every
\* other path; the admin layout renders its loading state on every path but
\* /admin/login, where it renders its children.
C9_LoadingOnGuardedPaths ==
    isLoading =>
        /\ \A p \in MainPaths :
               MainLayoutRender(Cur, p) =
                   IF p \in {P_dashboard, P_profile, P_onboarding}
                   THEN "loading" ELSE "children"
        /\ \A p \in AdminPaths :
               AdminLayoutRender(Cur, p) =
                   IF p = P_adminLogin THEN "children" ELSE "loading"

\* A checkAuth is awaiting its status call for a signed-in user.
C9_Witness ==
    /\ isLoading /\ isAuthenticated
    /\ \E c \in BagToSet(pending) : c.op = "checkAuth"

\* The decision the main layout's effect takes for a path.
Decision(p) == MainLayoutGuard(Cur, p).nav
ToLogin(p) ==
    /\ Decision(p) # None
    /\ Decision(p)[1].to.pathname = P_login
    /\ redirectTo(Decision(p)[1].to) = p
ToOnboarding(p) ==
    /\ Decision(p) # None
    /\ Decision(p)[1].to = Url(P_onboarding)
Guarded == {P_dashboard, P_profile, P_onboarding}

Resumes(stage) ==
    \E c \in At(pending, stage) : Count(pending', c) < Count(pending, c)

SessionUnchanged ==
    /\ user' = user
    /\ profile' = profile
    /\ isAuthenticated' = isAuthenticated
    /\ hasCompletedOnboarding' = hasCompletedOnboarding
    /\ cookies' = cookies

\* C11: when the sign-in call of a login does not succeed, login returns
\* success false with a non-empty error, and the step stores no cookie and
\* changes no field of the session: an unauthenticated session stays
\* unauthenticated.
C11_RejectedLoginLeavesSession ==
    [][(Resumes("signin") /\ ReturnedBy_next("login") # {}) =>
          /\ \A r \in ReturnedBy_next("login") :
                 ~r.success /\ r.error # None /\ r.error # Some("")
          /\ SessionUnchanged]_vars

\* A login rejected by the backend has returned its failure to a visitor
\* who is not signed in and holds no cookie.
C11_Witness ==
    /\ \E r \in ReturnedBy("login") :
           ~r.success /\ r.error = Some("Invalid or expired OTP")
    /\ ~isAuthenticated /\ cookies = NoCookies

\* Reading a property of a result object: undefined when it has none.
get(r, key) == IF key \in DOMAIN r THEN r[key] ELSE None

\* C12, as claimed: when the backend rejects the code of a verifyOtp as
\* invalid or expired, the failure returned to the caller carries the code
\* OTP_EXPIRED or INVALID_OTP, and the step stores no cookie and changes no
\* field of the session.
C12_OtpErrorCodeSurfaced ==
    [][(Resumes("verify") /\ ReturnedBy_next("verifyOtp") # {}) =>
          /\ \A r \in ReturnedBy_next("verifyOtp") :
                 r.error = Some("Invalid or expired OTP") =>
                     get(r, "code") \in {Some("OTP_EXPIRED"), Some("INVALID_OTP")}
          /\ SessionUnchanged]_vars

\* The status answers read by an operation, as noted in the last step and
\* in the step being taken.
StatusReadBy(op) == {e \in result : e.op = "status" /\ e.by = op}
StatusReadBy_next(op) == {e \in result' : e.op = "status" /\ e.by = op}

\* C13, as claimed: when login returns success, isAuthenticated is true and
\* user is the user of the status answer login read, requiresOnboarding is
\* the negation of the answer's onboarding flag and of
\* hasCompletedOnboarding, and when the flag is true the profile is stored.
C13_LoginSuccessState ==
    \A r \in ReturnedBy("login") : r.success =>
        \A e \in StatusReadBy("login") :
            /\ isAuthenticated
            /\ user = Some(e.data.user)
            /\ r.requiresOnboarding = Some(~e.data.onboarding_completed)
            /\ r.requiresOnboarding = Some(~hasCompletedOnboarding)
            /\ e.data.onboarding_completed => profile # None

\* The session holds what the status answer d says.
Holds(d) ==
    /\ user = Some(d.user)
    /\ hasCompletedOnboarding = d.onboarding_completed

\* C14: when login has just returned success with the session holding what
\* its status answer said, and the next step is a checkAuth reading the
\* same status answer, user and hasCompletedOnboarding are left as they
\* were right after login.
C14_CheckAuthAfterLoginIdempotent ==
    [][(/\ \E r \in ReturnedBy("login") : r.success
        /\ \E e \in StatusReadBy("login") :
               Holds(e.data) /\ StatusRead("checkAuth", e.data) \in result')
       => /\ user' = user
          /\ hasCompletedOnboarding' = hasCompletedOnboarding]_vars

\* The admin login page's login has returned success for an onboarded user
\* and the checkAuth it calls next is awaiting its status call.
C14_Witness ==
    /\ \E r \in ReturnedBy("login") : r.success
    /\ \E e \in StatusReadBy("login") : Holds(e.data) /\ e.data.onboarding_completed
    /\ Awaiting("checkAuth", "status") # {}

\* The asynchronous operations of the session store.
StoreOps == {"login", "signup", "verifyOtp", "logout", "refreshAuth", "checkAuth"}

\* C15, as claimed: isLoading is true in every state in which an operation
\* of the session store is awaiting a response.
C15_LoadingWhileAwaiting ==
    (\E c \in BagToSet(pending) : c.op \in StoreOps) => isLoading

\* The operations that answer with a result object.
ResultOps == {"login", "signup", "verifyOtp"}

\* C16: no operation of the session store returns by throwing, whatever the
\* backend or the transport did; and login, signup and verifyOtp return
\* either success, or failure together with an error text.
C16_StoreNeverThrows ==
    \A r \in result :
        r.op \in StoreOps =>
            /\ ~r.threw
            /\ r.op \in ResultOps =>
                   r.success \/ (r.error # None /\ r.error[1] # "")

\* signup has answered a transport failure with the network error text.
C16_Witness ==
    \E r \in ReturnedBy("signup") :
        /\ ~r.success
        /\ r.error = Some("Network error. Please check your connection.")

Responses == {e.response : e \in {x \in result : x.op = "response"}}
ResponsesTo(kinds) ==
    {e.response : e \in {x \in result : x.op = "response" /\ x.outcome.kind \in kinds}}

\* C17, as claimed: request resolves, without throwing, to a result that has
\* exactly one of data and error, error after a non-2xx answer or a
\* transport failure and data after a 2xx answer.
C17_ExactlyOneOfDataAndError ==
    /\ \A r \in Responses : ~r.threw /\ ((r.data # None) # (r.error # None))
    /\ \A r \in ResponsesTo({"error", "transport"}) : r.error # None
    /\ \A r \in ResponsesTo({"ok"}) : r.data # None

\* C17, amended: request resolves without throwing; after a non-2xx answer
\* or a transport failure the result has an error with a non-empty message
\* and no data; after a 2xx answer it has no error, and its data is the
\* parsed body, which is null when the body was empty or unparseable: then
\* neither data nor error is present.
C17_DataErrorOrNeither ==
    /\ \A r \in Responses : ~r.threw
    /\ \A r \in ResponsesTo({"error", "transport"}) :
           r.data = None /\ r.error # None /\ r.error[1].message # ""
    /\ \A e \in {x \in result : x.op = "response" /\ x.outcome.kind = "ok"} :
           e.response.error = None /\ e.response.data = e.outcome.body

\* request has answered a 2xx response whose body could not be parsed.
C17_Witness ==
    ApiResponded(HttpOk(None), ApiNoData) \in result

SignupRequests == {e \in result : e.op = "request" /\ e.endpoint = "/auth/signup"}
RequiredConsents(e) == e.privacy_consent /\ e.data_processing_consent

\* C18, as claimed: signup sends nothing to the registration endpoint when
\* the privacy consent or the data-processing consent is false.
C18_NoRequestWithoutConsent ==
    \A e \in SignupRequests : RequiredConsents(e)

\* C18, amended: the signup page calls signup, and so sends a request to the
\* registration endpoint, only for a form in which both required consents
\* are true; signup itself checks nothing and posts the consents it is
\* given.
C18_PageSendsOnlyWithConsent ==
    \A e \in SignupRequests : e.by = "SignupPage" => RequiredConsents(e)

\* The signup page has submitted a form and the request is in flight.
C18_Witness ==
    /\ \E e \in SignupRequests : e.by = "SignupPage"
    /\ \E c \in Awaiting("signup", "signup") : c.caller = "SignupPage"

SignupActs ==
    \/ \E e \in result' : e.op = "request" /\ e.endpoint = "/auth/signup"
    \/ ReturnedBy_next("signup") # {}

\* C19: a step in which signup sends its request or returns changes none of
\* user, profile, isAuthenticated, hasCompletedOnboarding and the two
\* credential cookies, whatever the backend answered; and a signup that
\* returns success returns the identifier of the pending registration.
C19_SignupNeverAuthenticates ==
    [][SignupActs =>
          /\ SessionUnchanged
          /\ \A r \in ReturnedBy_next("signup") :
                 r.success => get(r, "userId") # None]_vars

\* signup has returned success with the identifier to an unauthenticated
\* visitor, and the page goes on to the OTP step.
C19_Witness ==
    /\ \E r \in ReturnedBy("signup") : r.success /\ get(r, "userId") = Some("p1")
    /\ ~isAuthenticated /\ cookies = NoCookies
    /\ nav # None /\ nav[1].to.pathname = P_verifyOtp

\* The session after the step, as the layouts will read it.
Nxt == [user |-> user', profile |-> profile', isAuthenticated |-> isAuthenticated',
        isLoading |-> isLoading', hasCompletedOnboarding |-> hasCompletedOnboarding',
        cookies |-> cookies', pending |-> pending', result |-> {}, nav |-> None,
        forgot |-> forgot', sinceLogout |-> sinceLogout']
SentToOnboarding(s, p) ==
    /\ MainLayoutGuard(s, p).nav # None
    /\ MainLayoutGuard(s, p).nav[1].to = Url(P_onboarding)
Onboarded_next == {e.data : e \in {x \in result' : x.op = "onboarded"}}

\* C20, as claimed: when the onboarding endpoint returns a profile to an
\* authenticated user who has not completed onboarding, the step leaves
\* hasCompletedOnboarding true and the returned profile stored, and the main
\* layout no longer sends that user to onboarding from any path.
C20_OnboardingSuccessOnboards ==
    [][\A d \in Onboarded_next :
           isAuthenticated /\ ~hasCompletedOnboarding =>
               /\ profile' = Some(d)
               /\ hasCompletedOnboarding'
               /\ \A p \in MainPaths : ~SentToOnboarding(Nxt, p)]_vars

\* C20, amended: when the onboarding endpoint returns a profile to an
\* authenticated user who has not completed onboarding, the returned
\* profile is stored and hasCompletedOnboarding becomes true exactly when
\* that profile carries onboarding_completed_at; then the main layout sends
\* the user to onboarding from no path, and otherwise, once loading is over,
\* it sends the user from the dashboard back to onboarding.
C20_OnboardsWhenProfileSaysSo ==
    [][\A d \in Onboarded_next :
           isAuthenticated /\ ~hasCompletedOnboarding =>
               /\ profile' = Some(d)
               /\ isAuthenticated'
               /\ hasCompletedOnboarding' <=> (d.onboarding_completed_at # None)
               /\ hasCompletedOnboarding' =>
                      \A p \in MainPaths : ~SentToOnboarding(Nxt, p)
               /\ ~hasCompletedOnboarding' /\ ~isLoading' =>
                      SentToOnboarding(Nxt, P_dashboard)]_vars

\* The onboarding page has stored a returned profile that carries the
\* completion time, and the user is onboarded.
C20_Witness ==
    /\ \E e \in result : e.op = "onboarded" /\ e.data.onboarding_completed_at # None
    /\ isAuthenticated /\ hasCompletedOnboarding /\ profile # None
    /\ nav # None /\ nav[1].by = "OnboardingPage"

\* The continuation c of login or verifyOtp has received its credential pair
\* in this step and now awaits the status call.
Acquired(c) ==
    /\ c.at \in {"signin", "verify"}
    /\ Count(pending', c) < Count(pending, c)
    /\ LET a == [c EXCEPT !.at = "status", !.rememberMe = FALSE]
       IN Count(pending', a) > Count(pending, a)
Retention(rememberMe) == IF rememberMe THEN 30 ELSE 1

\* C21: in the step in which login or verifyOtp receives its credential
\* pair, the access token and the refresh token are each stored with a
\* lifetime of 30 days when the call was made with rememberMe true and of
\* 1 day when it was made with rememberMe false.
C21_RetentionByRememberMe ==
    [][\A c \in BagToSet(pending) :
           Acquired(c) =>
               /\ cookies'.access_token # None
               /\ cookies'.refresh_token # None
               /\ cookies'.access_token[1].expires = Retention(c.rememberMe)
               /\ cookies'.refresh_token[1].expires = Retention(c.rememberMe)]_vars

\* A login made with rememberMe has returned success and both tokens are
\* stored for 30 days.
C21_Witness ==
    /\ \E r \in ReturnedBy("login") : r.success
    /\ cookies.access_token # None /\ cookies.access_token[1].expires = 30
    /\ cookies.refresh_token # None /\ cookies.refresh_token[1].expires = 30

\* C22: a step in which checkAuth is called while no access token is stored
\* is the whole call: checkAuth has returned, with isLoading false, and no
\* call to the backend has been started (nothing new is awaited and no
\* request was sent).
C22_NoTokenNoRequest ==
    [][(cookies.access_token = None /\ CheckAuth) =>
          /\ ReturnedBy_next("checkAuth") # {}
          /\ ~isLoading'
          /\ pending' = pending
          /\ \A e \in result' : e.op # "request"]_vars

\* checkAuth has returned to a visitor without cookies; nothing is awaited.
C22_Witness ==
    /\ ReturnedBy("checkAuth") # {}
    /\ cookies = NoCookies
    /\ pending = EmptyBag
    /\ ~isLoading

IssuedTo_next(op) == {e.pair : e \in {x \in result' : x.op = "issued" /\ x.by = op}}
StatusRequestsOf_next(op) ==
    {e \in result' : e.op = "request" /\ e.endpoint = "/auth/status" /\ e.by = op}

\* C23: in the step in which login or verifyOtp receives its credential
\* pair, the pair is in the cookies when the status request is made: the
\* operation makes exactly one status request, that request carries the
\* access token just issued as its bearer token, and both tokens of the
\* pair are stored; and no status request of login or verifyOtp is made in
\* any other step.
C23_StatusAfterCredentials ==
    [][/\ \A c \in BagToSet(pending) :
              Acquired(c) =>
                  \E p \in IssuedTo_next(c.op) :
                      /\ \E e \in StatusRequestsOf_next(c.op) :
                             e.bearer = Some(p.access_token)
                      /\ \A e \in StatusRequestsOf_next(c.op) :
                             e.bearer = Some(p.access_token)
                      /\ bearer(Nxt) = Some(p.access_token)
                      /\ cookies'.refresh_token # None
                      /\ cookies'.refresh_token[1].value = p.refresh_token
       /\ \A op \in {"login", "verifyOtp"} :
              StatusRequestsOf_next(op) # {} =>
                  \E c \in BagToSet(pending) : c.op = op /\ Acquired(c)]_vars

\* verifyOtp has received the second pair, and the status request it awaits
\* carries the second access token.
C23_Witness ==
    /\ \E e \in result : /\ e.op = "request" /\ e.endpoint = "/auth/status"
                         /\ e.by = "verifyOtp" /\ e.bearer = Some("a2")
    /\ Issued("verifyOtp", [access_token |-> "a2", refresh_token |-> "r2"]) \in result
    /\ Awaiting("verifyOtp", "status") # {}

ResetAnswers_next == {e \in result' : e.op = "answered" /\ e.at = "reset"}
OtpCodes == {Some("INVALID_OTP"), Some("OTP_EXPIRED")}
ForwardSteps ==
    {<<"email", "otp">>, <<"otp", "newPassword">>, <<"newPassword", "success">>}
StepRules(moves) ==
    /\ forgot'.step # forgot.step => <<forgot.step, forgot'.step>> \in moves
    /\ forgot'.step = "success" /\ forgot.step # "success" =>
           \E e \in ResetAnswers_next : e.error = None
    /\ \A e \in ResetAnswers_next :
           /\ forgot.step = "newPassword"
           /\ e.error = None => forgot'.step = "success"
           /\ e.error # None /\ e.error[1].code \in OtpCodes =>
                  forgot'.step = "otp" /\ forgot'.otp = <<>>
           /\ e.error # None /\ e.error[1].code \notin OtpCodes =>
                  forgot'.step = "newPassword" /\ forgot'.otp = forgot.otp

\* C24, as claimed: the step of the password-reset page changes only along
\* email -> otp -> newPassword -> success and, after a reset call that
\* failed with INVALID_OTP or OTP_EXPIRED, from newPassword back to otp with
\* the code cleared; success is entered only when the reset call returned
\* without error, and any other error leaves the page on newPassword.
C24_ResetStepsForwardOnly ==
    [][StepRules(ForwardSteps \cup {<<"newPassword", "otp">>})]_vars

\* C24, amended: as claimed, and the Change Email button of the code step
\* takes the page from otp back to email.
C24_ResetSteps ==
    [][StepRules(ForwardSteps \cup {<<"newPassword", "otp">>, <<"otp", "email">>})]_vars

\* The reset call has failed with OTP_EXPIRED and the page is back on the
\* code step with an empty code field.
C24_Witness ==
    /\ \E e \in result : /\ e.op = "answered" /\ e.at = "reset"
                         /\ e.error # None /\ e.error[1].code = Some("OTP_EXPIRED")
    /\ forgot.step = "otp" /\ forgot.otp = <<>>

\* login or verifyOtp, resumed in this step after its status call, has
\* returned failure.
FailedAfterAcquiring ==
    \E c \in At(pending, "status") :
        /\ c.op \in {"login", "verifyOtp"}
        /\ Count(pending', c) < Count(pending, c)
        /\ \E r \in ReturnedBy_next(c.op) : ~r.success

\* C25, as claimed: when login or verifyOtp returns failure after its status
\* call, having stored a credential pair before it, the step does not end
\* with both tokens stored and the session unauthenticated.
C25_FailureLeavesNoCredentials ==
    [][FailedAfterAcquiring =>
          ~(/\ cookies'.access_token # None
            /\ cookies'.refresh_token # None
            /\ ~isAuthenticated')]_vars

\* C26, as claimed: while logout has completed and no login or verifyOtp has
\* been started since, the session is unauthenticated.
C26_StaysLoggedOut ==
    sinceLogout = "yes" => ~isAuthenticated

\* The refresh exchange that checkAuth awaited has failed in this step, and
\* checkAuth has returned.
CheckAuthRefreshFailed ==
    /\ \E c \in At(pending, "refresh") :
           c.op = "checkAuth" /\ Count(pending', c) < Count(pending, c)
    /\ \E r \in ReturnedBy_next("refreshAuth") : ~r.success
    /\ ReturnedBy_next("checkAuth") # {}

\* C27, as claimed: when checkAuth ends after a status error and a failed
\* refresh exchange, the session is unauthenticated in the state in which
\* isLoading has become false.
C27_LoggedOutWhenLoadingEnds ==
    [][CheckAuthRefreshFailed => (~isLoading' => ~isAuthenticated')]_vars

\* C28, as claimed: in every reachable state an unauthenticated session
\* holds no profile and hasCompletedOnboarding is false.
C28_NoProfileWhenLoggedOut ==
    ~isAuthenticated => profile = None /\ ~hasCompletedOnboarding

IsAdmin == user # None /\ user[1].role = "admin"
AdminSends(p, target) ==
    AdminLayoutGuard(Cur, p).nav = Some([by |-> "AdminLayout", to |-> Url(target)])

\* C29: on every admin path other than /admin/login the admin layout renders
\* its children only when isLoading is false, isAuthenticated is true and
\* the user's role is admin; and when isLoading is false its effect sends an
\* unauthenticated user to /admin/login and an authenticated user who is
\* not an admin to /dashboard.
C29_AdminChildrenOnlyForAdmin ==
    \A p \in AdminPaths \ {P_adminLogin} :
        /\ AdminLayoutRender(Cur, p) = "children" =>
               ~isLoading /\ isAuthenticated /\ IsAdmin
        /\ ~isLoading /\ ~isAuthenticated => AdminSends(p, P_adminLogin)
        /\ ~isLoading /\ isAuthenticated /\ ~IsAdmin => AdminSends(p, P_dashboard)

\* An admin is signed in and the admin pages are rendered.
C29_Witness ==
    /\ ~isLoading /\ isAuthenticated /\ IsAdmin
    /\ \A p \in AdminPaths : AdminLayoutRender(Cur, p) = "children"
    /\ \A p \in AdminPaths : AdminLayoutGuard(Cur, p).nav = None

StoredPair(ck) ==
    /\ ck.access_token # None /\ ck.refresh_token # None
    /\ [access_token |-> ck.access_token[1].value,
        refresh_token |-> ck.refresh_token[1].value] \in TokenPairs

\* C30, as claimed: a step in which refreshAuth returns true leaves an
\* issued pair in the two cookies, leaves user, profile, isAuthenticated and
\* hasCompletedOnboarding unchanged, and keeps for each token the lifetime
\* the token it replaces was stored with.
C30_RefreshKeepsRetention ==
    [][(\E r \in ReturnedBy_next("refreshAuth") : r.success) =>
          /\ StoredPair(cookies')
          /\ user' = user /\ profile' = profile
          /\ isAuthenticated' = isAuthenticated
          /\ hasCompletedOnboarding' = hasCompletedOnboarding
          /\ cookies.access_token # None =>
                 cookies'.access_token[1].expires = cookies.access_token[1].expires
          /\ cookies.refresh_token # None =>
                 cookies'.refresh_token[1].expires = cookies.refresh_token[1].expires]_vars

====
